---- MODULE Spec2Model ----
(***************************************************************************)
(* Model of the audit queue engine of services/audit.py                    *)
(* (class AuditQueueManager): one control thread calling add_to_queue,     *)
(* start_processing, pause_processing, resume_processing, stop_processing, *)
(* and the worker threads start_processing creates, each running           *)
(* _process_queue.  Every read or write of a shared attribute by a worker  *)
(* is one step, so the interleavings of the threads are the model's        *)
(* behaviours.                                                             *)
(***************************************************************************)
EXTENDS Integers, Sequences, FiniteSets, TLC

\* ------------------------------------------------------------------ bounds
\* add_to_queue calls made by the control thread; call k offers number k.
MaxItems == 2
\* threads start_processing may create over the run.
MaxWorkers == 2
\* the max_queue the engine is constructed with (Queue(maxsize=max_queue)).
max_queue == 1

\* rows in the result of the query of fetch_and_process_data.
MaxRows == 3
\* The longest Services list of a response.
MaxServices == 2

Workers == 1..MaxWorkers

\* --------------------------------------------------------------- state
VARIABLES
    queue,            \* self.queue: the pending numbers, oldest first
    unfinished,       \* self.queue.unfinished_tasks
    results,          \* self.results
    is_running,       \* self.is_running
    is_paused,        \* self.is_paused
    processed_count,  \* self.processed_count
    error_count,      \* self.error_count
    skip_count,       \* self.skip_count
    thread,           \* self.thread: 0 is None, else the last thread created
    pc,               \* pc[w]: where thread w is in _process_queue
    phone_number,     \* phone_number[w]: the local of that name, 0 when unbound
    result,           \* result[w]: the local of that name
    tmp,              \* tmp[w]: the counter value read by an in-place add
    cur,              \* cur[w]: the item dequeued in the current iteration, 0 if none
    ctl,              \* the control thread: "idle", "putting", "joining",
                      \* "joining_again" (the join of a stop_processing called
                      \* on an engine that was stopped already)
    next_item,        \* the number the next add_to_queue call offers
    put_item,         \* the number a blocked add_to_queue is offering, 0 if none
    add_ret,          \* what the last add_to_queue returned: "none", "True", "False"
    beh,              \* what the endpoint did with the requests of the last check
    sent,             \* the "to" parameters of the requests the last check issued
    response,         \* parse: the JSON body of a 200 response
    parsed,           \* parse: what parse_api_response returned for it
    synced,           \* parse: the rows create_synchronized_dataframe returned
    ps,               \* parse: "waiting", "received", "parsed", "synced"
    rows,             \* data_service: the rows conn.query returned
    df,               \* data_service: the frame fetch_and_process_data returned
    ds,               \* data_service: "query", then "returned", then "summarized"
    summary           \* data_service: the table get_summary_table returned

vars == <<queue, unfinished, results, is_running, is_paused, processed_count,
          error_count, skip_count, thread, pc, phone_number, result, tmp, cur,
          ctl, next_item, put_item, add_ret, beh, sent, response, parsed, synced, ps,
          rows, df, ds, summary>>

shared == <<queue, unfinished, results, is_running, is_paused, processed_count,
            error_count, skip_count, thread>>
counters == <<processed_count, error_count, skip_count>>
control == <<ctl, next_item, put_item, add_ret>>
locals == <<phone_number, result, tmp, cur>>
engine == <<shared, pc, locals, control>>
\* The state of services/data_service.py, which the engine never touches.
data == <<rows, df, ds, summary>>
\* The state of one response on its way through parse_api_response and
\* create_synchronized_dataframe.
parsing == <<response, parsed, synced, ps>>

NoResult == [nomor |-> <<>>, status |-> "none", error |-> "none", src |-> 0]
\* pd.DataFrame(): no column, no row.  A summary table is its status columns
\* and, for each value of its tujuan column, the cells of that row.
EmptyFrame == [columns |-> {}, cells |-> <<>>]
\* No response has arrived, nothing has been parsed.
NoResponse == [msisdn |-> <<>>, Services |-> <<>>]
NoParsed == [nomor |-> <<>>]
\* No check has been made yet.
NoBehaviour == [ping |-> "none", resp |-> "none", msisdn |-> <<>>]

\* AuditQueueManager.__init__
Init ==
    /\ queue = <<>>
    /\ unfinished = 0
    /\ results = <<>>
    /\ is_running = FALSE
    /\ is_paused = FALSE
    /\ processed_count = 0
    /\ error_count = 0
    /\ skip_count = 0
    /\ thread = 0
    /\ pc = [w \in Workers |-> "none"]
    /\ phone_number = [w \in Workers |-> 0]
    /\ result = [w \in Workers |-> NoResult]
    /\ tmp = [w \in Workers |-> 0]
    /\ cur = [w \in Workers |-> 0]
    /\ ctl = "idle"
    /\ next_item = 1
    /\ put_item = 0
    /\ add_ret = "none"
    /\ beh = NoBehaviour
    /\ sent = <<>>
    /\ response = NoResponse
    /\ parsed = NoParsed
    /\ synced = <<>>
    /\ ps = "waiting"
    /\ rows = <<>>
    /\ df = <<>>
    /\ ds = "query"
    /\ summary = EmptyFrame

\* --------------------------------------------------------------------- text
\* A text (a str of the program, a text cell of the table) is the sequence of
\* its characters; None, and a NULL of the table (None or NaN in the frame),
\* is Null, which is no text.
Null == <<"NULL">>

\* StartsWith that finds the prefix anywhere in the text.
Contains(s, p) ==
    \E k \in 1..Len(s) : k + Len(p) - 1 <= Len(s) /\ SubSeq(s, k, k + Len(p) - 1) = p

\* str.startswith
StartsWith(s, p) == Len(s) >= Len(p) /\ SubSeq(s, 1, Len(p)) = p

\* isinstance(msisdn, str)
isinstance_str(m) == m # Null

\* The msisdn of a response body: null, absent (the default ""), texts with
\* and without a leading "62".
MsisdnValues ==
    {Null, <<>>, <<"6">>, <<"6", "2">>, <<"6", "2", "8", "1">>,
     <<"0", "8", "1">>, <<"8", "6", "2">>, <<"6", "2", "6", "2">>}

\* The msisdn with its "62" cut off and no "0" put in front.
normalize_msisdn_no_zero(m) ==
    IF isinstance_str(m) /\ StartsWith(m, <<"6", "2">>)
    THEN SubSeq(m, 3, Len(m))
    ELSE m
\* if isinstance(msisdn, str) and msisdn.startswith("62"): "0" + msisdn[2:]
normalize_msisdn(m) ==
    IF isinstance_str(m) /\ StartsWith(m, <<"6", "2">>)
    THEN <<"0">> \o SubSeq(m, 3, Len(m))
    ELSE m

\* ------------------------------------------------- the check of one number
\* What the endpoint does with the two requests of one check: the ping of
\* check_api_reachability (ping: "200", another status, or a raised
\* exception) and the request proper (resp), and the msisdn of the JSON body
\* it answers with (a response without a JSON body has none).
\* The status codes other than 200 the endpoint answers with.
Non200 == {"404", "500"}
PingKinds == {"200", "exc"} \cup Non200
RespKinds == {"200json", "badjson", "timeout", "connerr", "reqerr", "fault"} \cup Non200
Behaviours ==
    {b \in [ping : PingKinds, resp : RespKinds, msisdn : MsisdnValues] :
        b.resp # "200json" => b.msisdn = <<>>}

\* The behaviours the engine's runs draw from: a check that succeeds and a
\* check that is skipped.
Endpoint == {[ping |-> "200", resp |-> "200json", msisdn |-> <<"6", "2", "8", "1">>],
             [ping |-> "200", resp |-> "500", msisdn |-> <<>>]}

\* check_api_reachability: True iff the ping answered 200; any exception is False.
check_api_reachability(b) == b.ping = "200"

\* The "to" parameter of the ping: the text "TEST", which is no number.
TEST == -1

\* requests.get as _check_single_number calls it for number n: the ping of
\* check_api_reachability, and the request for n when the ping answered 200.
requests(n, b) == IF check_api_reachability(b) THEN <<TEST, n>> ELSE <<TEST>>

\* The queued number n as the text it is in the program.
number_text(n) == <<ToString(n)>>

\* f"HTTP {response.status_code}"
HttpError(code) == "HTTP " \o code

\* _check_single_number: the outcome record for number n under behaviour b.
\* On success nomor is what parse_api_response makes of the msisdn of the
\* response, whatever number was asked for; in every other outcome it is the
\* number asked for.  src is the dequeued item the outcome was made for (not a
\* field of the code's dict).
check_single_number(n, b) ==
    IF ~check_api_reachability(b)
    THEN [nomor |-> number_text(n), status |-> "skipped", error |-> "API unreachable", src |-> n]
    ELSE CASE b.resp = "200json" ->
                [nomor |-> normalize_msisdn(b.msisdn), status |-> "success",
                 error |-> "none", src |-> n]
           [] b.resp \in Non200 ->
                [nomor |-> number_text(n), status |-> "skipped", error |-> HttpError(b.resp), src |-> n]
           [] b.resp = "badjson" ->
                [nomor |-> number_text(n), status |-> "skipped", error |-> "Invalid JSON response", src |-> n]
           [] b.resp = "timeout" ->
                [nomor |-> number_text(n), status |-> "skipped", error |-> "Request timeout", src |-> n]
           [] b.resp = "connerr" ->
                [nomor |-> number_text(n), status |-> "skipped", error |-> "Connection error", src |-> n]
           [] b.resp = "reqerr" ->
                [nomor |-> number_text(n), status |-> "skipped", error |-> "request failed", src |-> n]
           [] OTHER ->
                [nomor |-> number_text(n), status |-> "api_error", error |-> "fault", src |-> n]

\* ------------------------------------------------------ the control thread
\* Full with the comparison off by one: a put into a full queue is let through.
FullOffByOne(q) == max_queue > 0 /\ Len(q) > max_queue

\* Queue.put's test for a full queue: maxsize > 0 and qsize() >= maxsize.
Full(q) == max_queue > 0 /\ Len(q) >= max_queue

\* add_to_queue, the queue has room: put appends at once and the call returns True.
AddToQueue ==
    /\ ctl = "idle"
    /\ next_item <= MaxItems
    /\ ~Full(queue)
    /\ queue' = Append(queue, next_item)
    /\ unfinished' = unfinished + 1
    /\ next_item' = next_item + 1
    /\ add_ret' = "True"
    /\ UNCHANGED <<results, is_running, is_paused, counters, thread, pc, locals,
                   ctl, put_item>>

\* add_to_queue, the queue is full: put(timeout=1) waits on not_full.
AddToQueueBlock ==
    /\ ctl = "idle"
    /\ next_item <= MaxItems
    /\ Full(queue)
    /\ ctl' = "putting"
    /\ put_item' = next_item
    /\ next_item' = next_item + 1
    /\ add_ret' = "none"
    /\ UNCHANGED <<shared, pc, locals>>

\* the waiting put finds room (a worker took an item): it appends, returns True.
PutResume ==
    /\ ctl = "putting"
    /\ ~Full(queue)
    /\ queue' = Append(queue, put_item)
    /\ unfinished' = unfinished + 1
    /\ ctl' = "idle"
    /\ put_item' = 0
    /\ add_ret' = "True"
    /\ UNCHANGED <<results, is_running, is_paused, counters, thread, pc, locals,
                   next_item>>

\* the waiting put finds the queue still full at its deadline: Full is raised,
\* add_to_queue catches it and returns False.
PutTimeout ==
    /\ ctl = "putting"
    /\ Full(queue)
    /\ ctl' = "idle"
    /\ put_item' = 0
    /\ add_ret' = "False"
    /\ UNCHANGED <<shared, pc, locals, next_item>>

\* start_processing that sets is_running and leaves is_paused as it finds it.
StartProcessingKeepsPause ==
    /\ ctl = "idle"
    /\ ~is_running
    /\ thread < MaxWorkers
    /\ is_running' = TRUE
    /\ thread' = thread + 1
    /\ pc' = [pc EXCEPT ![thread + 1] = "loop"]
    /\ UNCHANGED <<queue, unfinished, results, is_paused, counters, locals, control>>

\* start_processing on an engine that is not running: sets the flags, creates
\* and starts a thread.
StartProcessing ==
    /\ ctl = "idle"
    /\ ~is_running
    /\ thread < MaxWorkers
    /\ is_running' = TRUE
    /\ is_paused' = FALSE
    /\ thread' = thread + 1
    /\ pc' = [pc EXCEPT ![thread + 1] = "loop"]
    /\ UNCHANGED <<queue, unfinished, results, counters, locals, control>>

\* start_processing without its test of is_running: the body runs again.
StartProcessingAgain ==
    /\ ctl = "idle"
    /\ is_running
    /\ thread < MaxWorkers
    /\ is_paused' = FALSE
    /\ thread' = thread + 1
    /\ pc' = [pc EXCEPT ![thread + 1] = "loop"]
    /\ UNCHANGED <<queue, unfinished, results, is_running, counters, locals, control>>

\* start_processing on a running engine: the if is false, nothing happens.
StartProcessingRunning ==
    /\ ctl = "idle"
    /\ is_running
    /\ UNCHANGED vars

\* pause_processing
PauseProcessing ==
    /\ ctl = "idle"
    /\ is_paused' = TRUE
    /\ UNCHANGED <<queue, unfinished, results, is_running, counters, thread, pc,
                   locals, control>>

\* resume_processing
ResumeProcessing ==
    /\ ctl = "idle"
    /\ is_paused' = FALSE
    /\ UNCHANGED <<queue, unfinished, results, is_running, counters, thread, pc,
                   locals, control>>

\* The control thread is inside thread.join(timeout=2).
Joining == ctl \in {"joining", "joining_again"}

\* stop_processing: clears is_running, then joins self.thread if there is one.
StopProcessing ==
    /\ ctl = "idle"
    /\ is_running' = FALSE
    /\ ctl' = IF thread = 0 THEN "idle"
              ELSE IF is_running THEN "joining" ELSE "joining_again"
    /\ UNCHANGED <<queue, unfinished, results, is_paused, counters, thread, pc,
                   locals, next_item, put_item, add_ret>>

\* thread.join(timeout=2) returns because the thread has ended.
JoinReturn ==
    /\ Joining
    /\ pc[thread] = "done"
    /\ ctl' = "idle"
    /\ UNCHANGED <<shared, pc, locals, next_item, put_item, add_ret>>

\* The places where a worker can stay longer than the 2 seconds of the join:
\* inside _check_single_number (requests with timeouts of 10 and 30 seconds)
\* and inside time.sleep(delay_seconds) (30 seconds by default).
LongBlocking == {"check", "sleep"}

\* thread.join(timeout=2) returns after 2 seconds with the thread still alive.
JoinTimeout ==
    /\ Joining
    /\ pc[thread] \in LongBlocking
    /\ ctl' = "idle"
    /\ UNCHANGED <<shared, pc, locals, next_item, put_item, add_ret>>

\* The calls of the control thread; none of them touches beh or the data service.
Control ==
    \/ AddToQueue /\ UNCHANGED <<beh, sent, data, parsing>>
    \/ AddToQueueBlock /\ UNCHANGED <<beh, sent, data, parsing>>
    \/ PutResume /\ UNCHANGED <<beh, sent, data, parsing>>
    \/ PutTimeout /\ UNCHANGED <<beh, sent, data, parsing>>
    \/ StartProcessing /\ UNCHANGED <<beh, sent, data, parsing>>
    \/ StartProcessingRunning /\ UNCHANGED <<beh, sent, data, parsing>>
    \/ PauseProcessing /\ UNCHANGED <<beh, sent, data, parsing>>
    \/ ResumeProcessing /\ UNCHANGED <<beh, sent, data, parsing>>
    \/ StopProcessing /\ UNCHANGED <<beh, sent, data, parsing>>
    \/ JoinReturn /\ UNCHANGED <<beh, sent, data, parsing>>
    \/ JoinTimeout /\ UNCHANGED <<beh, sent, data, parsing>>

\* ------------------------------------------------------- the worker thread
\* A local that is dead (assigned again before any use) is kept at its initial
\* value; phone_number is not dead, the except clause looks it up in locals().
\* The definitions whose comment begins with the name of another definition
\* are variants of it, each with a fault the properties have to tell apart.

\* CounterOf with two counters only: whatever is not a success is an error.
CounterOfNoSkip(st) ==
    IF st = "success" THEN "processed_count" ELSE "error_count"

\* The counter an outcome is counted in: the if / elif / else on result["status"].
CounterOf(st) ==
    IF st = "success" THEN "processed_count"
    ELSE IF st = "skipped" THEN "skip_count"
    ELSE "error_count"

\* The value of the named counter.
CounterValue(name) ==
    CASE name = "processed_count" -> processed_count
      [] name = "skip_count" -> skip_count
      [] OTHER -> error_count

\* The named counter set to v, the other two unchanged.
SetCounter(name, v) ==
    /\ processed_count' = IF name = "processed_count" THEN v ELSE processed_count
    /\ skip_count' = IF name = "skip_count" THEN v ELSE skip_count
    /\ error_count' = IF name = "error_count" THEN v ELSE error_count

\* str(e) of the exception of queue.get(timeout=1): queue.Empty carries no text.
EmptyText == ""

\* The nomor "unknown" of the except clause.
Unknown == <<"u", "n", "k", "n", "o", "w", "n">>

\* The dict the except clause builds: nomor is the local phone_number when one
\* is bound in the frame, else "unknown".
error_result(w) ==
    [nomor |-> IF phone_number[w] # 0 THEN number_text(phone_number[w]) ELSE Unknown,
     status |-> "queue_error", error |-> EmptyText, src |-> cur[w]]

\* Queue.task_done: one unfinished task less; with none left it raises
\* ValueError, which the finally clause swallows.
task_done(n) == IF n > 0 THEN n - 1 ELSE n

\* LoopTest as while True: the flag is never looked at.
LoopTestForever(w) ==
    /\ pc[w] = "loop"
    /\ pc' = [pc EXCEPT ![w] = "if_paused"]
    /\ UNCHANGED <<shared, locals, control>>

\* while self.is_running: the loop test; a false test ends the thread and
\* its frame.
LoopTest(w) ==
    /\ pc[w] = "loop"
    /\ pc' = [pc EXCEPT ![w] = IF is_running THEN "if_paused" ELSE "done"]
    /\ phone_number' = [phone_number EXCEPT ![w] = IF is_running THEN @ ELSE 0]
    /\ UNCHANGED <<shared, result, tmp, cur, control>>

\* if not self.is_paused and ...: the read of is_paused.  Paused, the elif
\* chain sleeps one second and the loop test follows.
IfPaused(w) ==
    /\ pc[w] = "if_paused"
    /\ pc' = [pc EXCEPT ![w] = IF ~is_paused THEN "if_empty" ELSE "loop"]
    /\ UNCHANGED <<shared, locals, control>>

\* IfEmpty of a worker that ends when it finds the queue empty.
IfEmptyExits(w) ==
    /\ pc[w] = "if_empty"
    /\ pc' = [pc EXCEPT ![w] = IF queue # <<>> THEN "get" ELSE "done"]
    /\ UNCHANGED <<shared, locals, control>>

\* ... and not self.queue.empty(): the read of the queue's size.  Empty, the
\* elif chain sleeps (one second, or a tenth) and the loop test follows.
IfEmpty(w) ==
    /\ pc[w] = "if_empty"
    /\ pc' = [pc EXCEPT ![w] = IF queue # <<>> THEN "get" ELSE "loop"]
    /\ UNCHANGED <<shared, locals, control>>

\* phone_number = self.queue.get(timeout=1) with an item present, and the call
\* of _check_single_number with it.
Get(w) ==
    /\ pc[w] = "get"
    /\ queue # <<>>
    /\ phone_number' = [phone_number EXCEPT ![w] = Head(queue)]
    /\ cur' = [cur EXCEPT ![w] = Head(queue)]
    /\ queue' = Tail(queue)
    /\ pc' = [pc EXCEPT ![w] = "check"]
    /\ UNCHANGED <<unfinished, results, is_running, is_paused, counters, thread,
                   result, tmp, control>>

\* self.queue.get(timeout=1) with no item for one second: Empty is raised.
GetEmpty(w) ==
    /\ pc[w] = "get"
    /\ queue = <<>>
    /\ pc' = [pc EXCEPT ![w] = "except"]
    /\ UNCHANGED <<shared, locals, control>>

\* _check_single_number returns its outcome; self.results.append(result).
Check(w) ==
    /\ pc[w] = "check"
    /\ \E b \in Endpoint :
          /\ result' = [result EXCEPT ![w] = check_single_number(phone_number[w], b)]
          /\ results' = Append(results, check_single_number(phone_number[w], b))
    /\ pc' = [pc EXCEPT ![w] = "count_read"]
    /\ UNCHANGED <<queue, unfinished, is_running, is_paused, counters, thread,
                   phone_number, tmp, cur, control>>

\* self.<counter> += 1, the read of the counter.
CountRead(w) ==
    /\ pc[w] = "count_read"
    /\ tmp' = [tmp EXCEPT ![w] = CounterValue(CounterOf(result[w].status))]
    /\ pc' = [pc EXCEPT ![w] = "count_write"]
    /\ UNCHANGED <<shared, phone_number, result, cur, control>>

\* CountWrite of an iteration that ends with the counter: no delay, no
\* task_done, the loop test follows at once.
CountWriteNoDelay(w) ==
    /\ pc[w] = "count_write"
    /\ SetCounter(CounterOf(result[w].status), tmp[w] + 1)
    /\ pc' = [pc EXCEPT ![w] = "loop"]
    /\ tmp' = [tmp EXCEPT ![w] = 0]
    /\ result' = [result EXCEPT ![w] = NoResult]
    /\ cur' = [cur EXCEPT ![w] = 0]
    /\ UNCHANGED <<queue, unfinished, results, is_running, is_paused, thread,
                   phone_number, control>>

\* self.<counter> += 1, the write of the sum; time.sleep(self.delay_seconds) begins.
CountWrite(w) ==
    /\ pc[w] = "count_write"
    /\ SetCounter(CounterOf(result[w].status), tmp[w] + 1)
    /\ pc' = [pc EXCEPT ![w] = "sleep"]
    /\ tmp' = [tmp EXCEPT ![w] = 0]
    /\ result' = [result EXCEPT ![w] = NoResult]
    /\ UNCHANGED <<queue, unfinished, results, is_running, is_paused, thread,
                   phone_number, cur, control>>

\* time.sleep(self.delay_seconds) ends; finally: self.queue.task_done().
Sleep(w) ==
    /\ pc[w] = "sleep"
    /\ unfinished' = task_done(unfinished)
    /\ pc' = [pc EXCEPT ![w] = "loop"]
    /\ cur' = [cur EXCEPT ![w] = 0]
    /\ UNCHANGED <<queue, results, is_running, is_paused, counters, thread,
                   phone_number, result, tmp, control>>

\* Except without the except clause: the exception leaves _process_queue and
\* the thread ends.
ExceptEndsThread(w) ==
    /\ pc[w] = "except"
    /\ pc' = [pc EXCEPT ![w] = "done"]
    /\ UNCHANGED <<shared, locals, control>>

\* except Exception as e: error_result is built and appended.
Except(w) ==
    /\ pc[w] = "except"
    /\ results' = Append(results, error_result(w))
    /\ pc' = [pc EXCEPT ![w] = "exc_read"]
    /\ UNCHANGED <<queue, unfinished, is_running, is_paused, counters, thread,
                   locals, control>>

\* self.error_count += 1 of the except clause, the read.
ExceptRead(w) ==
    /\ pc[w] = "exc_read"
    /\ tmp' = [tmp EXCEPT ![w] = error_count]
    /\ pc' = [pc EXCEPT ![w] = "exc_write"]
    /\ UNCHANGED <<shared, phone_number, result, cur, control>>

\* self.error_count += 1 of the except clause, the write.
ExceptWrite(w) ==
    /\ pc[w] = "exc_write"
    /\ error_count' = tmp[w] + 1
    /\ pc' = [pc EXCEPT ![w] = "exc_finally"]
    /\ tmp' = [tmp EXCEPT ![w] = 0]
    /\ UNCHANGED <<queue, unfinished, results, is_running, is_paused,
                   processed_count, skip_count, thread, phone_number, result,
                   cur, control>>

\* finally: self.queue.task_done(), after the except clause.
ExceptFinally(w) ==
    /\ pc[w] = "exc_finally"
    /\ unfinished' = task_done(unfinished)
    /\ pc' = [pc EXCEPT ![w] = "loop"]
    /\ cur' = [cur EXCEPT ![w] = 0]
    /\ UNCHANGED <<queue, results, is_running, is_paused, counters, thread,
                   phone_number, result, tmp, control>>

process_queue(w) ==
    \/ LoopTest(w) /\ UNCHANGED <<beh, sent, data, parsing>>
    \/ IfPaused(w) /\ UNCHANGED <<beh, sent, data, parsing>>
    \/ IfEmpty(w) /\ UNCHANGED <<beh, sent, data, parsing>>
    \/ Get(w) /\ UNCHANGED <<beh, sent, data, parsing>>
    \/ GetEmpty(w) /\ UNCHANGED <<beh, sent, data, parsing>>
    \/ Check(w) /\ UNCHANGED <<beh, sent, data, parsing>>
    \/ CountRead(w) /\ UNCHANGED <<beh, sent, data, parsing>>
    \/ CountWrite(w) /\ UNCHANGED <<beh, sent, data, parsing>>
    \/ Sleep(w) /\ UNCHANGED <<beh, sent, data, parsing>>
    \/ Except(w) /\ UNCHANGED <<beh, sent, data, parsing>>
    \/ ExceptRead(w) /\ UNCHANGED <<beh, sent, data, parsing>>
    \/ ExceptWrite(w) /\ UNCHANGED <<beh, sent, data, parsing>>
    \/ ExceptFinally(w) /\ UNCHANGED <<beh, sent, data, parsing>>

Next == Control \/ \E w \in Workers : process_queue(w)

Spec == Init /\ [][Next]_vars

\* While some worker can take a step, a worker step is taken: a thread that
\* can run is scheduled, and every blocking call of the loop (get, the
\* requests, the sleeps) returns.  Nothing is assumed of the control thread.
FairSpec == Spec /\ WF_vars(\E w \in Workers : process_queue(w))

\* --------------------------------------- one worker, every endpoint behaviour
\* Check with the endpoint free to do anything with the two requests; beh
\* keeps what it did, so that the outcome can be set against it.
CheckAny(w) ==
    /\ pc[w] = "check"
    /\ \E b \in Behaviours :
          /\ result' = [result EXCEPT ![w] = check_single_number(phone_number[w], b)]
          /\ results' = Append(results, check_single_number(phone_number[w], b))
          /\ beh' = b
          /\ sent' = requests(phone_number[w], b)
    /\ pc' = [pc EXCEPT ![w] = "count_read"]
    /\ UNCHANGED <<queue, unfinished, is_running, is_paused, counters, thread,
                   phone_number, tmp, cur, control>>

\* The run of the audit page: numbers are added, the engine is started once
\* and its one worker checks them in turn.
CheckNext ==
    \/ AddToQueue /\ UNCHANGED <<beh, sent, data, parsing>>
    \/ StartProcessing /\ thread = 0 /\ UNCHANGED <<beh, sent, data, parsing>>
    \/ \E w \in Workers :
          \/ LoopTest(w) /\ UNCHANGED <<beh, sent, data, parsing>>
          \/ IfPaused(w) /\ UNCHANGED <<beh, sent, data, parsing>>
          \/ IfEmpty(w) /\ UNCHANGED <<beh, sent, data, parsing>>
          \/ Get(w) /\ UNCHANGED <<beh, sent, data, parsing>>
          \/ CheckAny(w) /\ UNCHANGED <<data, parsing>>
          \/ CountRead(w) /\ UNCHANGED <<beh, sent, data, parsing>>
          \/ CountWrite(w) /\ UNCHANGED <<beh, sent, data, parsing>>
          \/ Sleep(w) /\ UNCHANGED <<beh, sent, data, parsing>>

CheckSpec == Init /\ [][CheckNext]_vars

\* ------------------------------------------- services/data_service.py
SUP == <<"S", "U", "P">>

\* The cells the query results are made of: the destinations, the status
\* codes (20 is a success) and the serial numbers.
TujuanValues == {Null, <<"0", "8", "1">>, <<"0", "8", "2">>}
StatusValues == {20, 40}
SnValues == {Null, <<>>, <<"S", "U", "P", "7">>, <<"X", "S", "U", "P">>}
\* A NULL status: NaN in the frame, equal to no number.
NaN == -1
\* Records with no status: one with no field at all, one with the rest in place.
MissingRows == {[tujuan |-> Null, status |-> NaN, sn |-> Null],
                [tujuan |-> <<"0", "8", "1">>, status |-> NaN, sn |-> <<"S", "U", "P", "7">>]}
Rows == [tujuan : TujuanValues, status : StatusValues, sn : SnValues] \cup MissingRows

\* Series.str.startswith(p, na=na) on one cell: na for a null.
str_startswith(s, p, na) == IF s = Null THEN na ELSE StartsWith(s, p)

\* is_success that takes whatever is not the failure code for a success.
is_success_not_failed(r) == r.status # 40

is_success(r) == r.status = 20
mask_valid(r) == is_success(r) /\ str_startswith(r.sn, SUP, FALSE)
mask_wait(r) == is_success(r) /\ ~str_startswith(r.sn, SUP, FALSE)

\* The status_label of a row: "GAGAL" for all, then "SUKSES VALID" under
\* mask_valid, then "SUKSES WAIT" under mask_wait.
status_label(r) ==
    IF mask_wait(r) THEN "SUKSES WAIT"
    ELSE IF mask_valid(r) THEN "SUKSES VALID"
    ELSE "GAGAL"

\* The frame after the two default columns and the status labels are set.
Labelled(q) ==
    [i \in 1..Len(q) |->
        [tujuan |-> q[i].tujuan, status |-> q[i].status, sn |-> q[i].sn,
         status_label |-> status_label(q[i]), final_status |-> "GAGAL A1"]]

\* groupby with dropna=False: the null key makes a group as well.
groupby_keep_null(d) == {d[i].tujuan : i \in 1..Len(d)}

\* df.groupby("tujuan"): the keys of the groups; rows with a null key are in
\* no group (dropna is True by default).
groupby(d) == {d[i].tujuan : i \in 1..Len(d)} \ {Null}

\* group_index that holds the first row of the group only.
group_index_first(d, t) ==
    {i \in 1..Len(d) : d[i].tujuan = t /\ \A j \in 1..(i - 1) : d[j].tujuan # t}

\* group.index: the rows of the group with key t.
group_index(d, t) == {i \in 1..Len(d) : d[i].tujuan = t}

\* valid_count that looks at the first row of the group only.
valid_count_first(d, t) ==
    Cardinality({i \in group_index(d, t) :
                   /\ d[i].status_label = "SUKSES VALID"
                   /\ \A j \in 1..(i - 1) : d[j].tujuan # t})

valid_count(d, t) ==
    Cardinality({i \in group_index(d, t) : d[i].status_label = "SUKSES VALID"})
wait_count(d, t) ==
    Cardinality({i \in group_index(d, t) : d[i].status_label = "SUKSES WAIT"})

\* The rule without rule b: one or more SUKSES VALID is a profit.
rule_no_loss(valid, wait) ==
    IF valid >= 1 THEN "SUKSES PROFIT"
    ELSE IF valid = 0 /\ wait > 0 THEN "SUKSES PROFIT"
    ELSE "unassigned"

\* The if / elif chain of the loop: the final_status assigned to a group
\* with these counts, "unassigned" when no branch is taken.
rule(valid, wait) ==
    IF valid = 1 THEN "SUKSES PROFIT"
    ELSE IF valid > 1 THEN "SUKSES LOSS"
    ELSE IF valid = 0 /\ wait > 0 THEN "SUKSES PROFIT"
    ELSE "unassigned"

\* df.loc[index, "final_status"] = v
RECURSIVE loc_final_status(_, _, _)
loc_final_status(d, index, v) ==
    IF index = {} THEN d
    ELSE LET i == CHOOSE k \in index : TRUE
         IN loc_final_status([d EXCEPT ![i].final_status = v], index \ {i}, v)

\* One pass of the loop body, for the group with key t.
assign_group(d, t) ==
    LET v == rule(valid_count(d, t), wait_count(d, t))
    IN IF v = "unassigned" THEN d ELSE loc_final_status(d, group_index(d, t), v)

\* for tujuan, group in df.groupby("tujuan"): the passes for the keys left.
RECURSIVE for_groups(_, _)
for_groups(d, keys) ==
    IF keys = {} THEN d
    ELSE LET t == CHOOSE k \in keys : TRUE
         IN for_groups(assign_group(d, t), keys \ {t})

\* fetch_and_process_data from the query result on: an empty frame is
\* returned as it is.
fetch_and_process_data(q) ==
    IF q = <<>> THEN q ELSE for_groups(Labelled(q), groupby(Labelled(q)))

\* conn.query: the result set gets one more row.
QueryRow ==
    /\ ds = "query"
    /\ Len(rows) < MaxRows
    /\ \E r \in Rows : rows' = Append(rows, r)
    /\ UNCHANGED <<df, ds, summary>>

\* The query has returned rows; the frame is labelled and returned.
FetchAndProcess ==
    /\ ds = "query"
    /\ df' = fetch_and_process_data(rows)
    /\ ds' = "returned"
    /\ UNCHANGED <<rows, summary>>

\* get_summary_table: groupby(["tujuan", "final_status"]) leaves out the rows
\* with a null tujuan; size().unstack(fill_value=0) makes a row for each
\* tujuan left and a column for each final_status that occurs, 0 where the
\* pair does not occur.
get_summary_table(d) ==
    IF d = <<>> THEN EmptyFrame
    ELSE LET grouped == {i \in 1..Len(d) : d[i].tujuan # Null}
             cols == {d[i].final_status : i \in grouped}
         IN [columns |-> cols,
             cells |-> [t \in {d[i].tujuan : i \in grouped} |->
                          [c \in cols |->
                              Cardinality({i \in grouped : d[i].tujuan = t
                                                           /\ d[i].final_status = c})]]]

\* The page passes the returned frame to get_summary_table.
GetSummaryTable ==
    /\ ds = "returned"
    /\ summary' = get_summary_table(df)
    /\ ds' = "summarized"
    /\ UNCHANGED <<rows, df>>

LabelNext ==
    \/ QueryRow /\ UNCHANGED <<engine, beh, sent, parsing>>
    \/ FetchAndProcess /\ UNCHANGED <<engine, beh, sent, parsing>>
    \/ GetSummaryTable /\ UNCHANGED <<engine, beh, sent, parsing>>

LabelSpec == Init /\ [][LabelNext]_vars

\* ------------------------------------ parse_api_response and reconciliation
\* Text is a sequence of characters, None is Null. A response carries msisdn
\* and Services; balance, statusinfo and the raw response are copied through
\* and left out.
\* The two identifier inputs of the audit page (by default "Kartu" and
\* "Freedom Internet 1.5GB/1Hari"), cut to one upper-case letter each; the
\* package names have both cases.
identifier_kartu == <<"K">>
identifier_paket == <<"P">>

PackageNames ==
    {<<"K", "x">>, <<"x", "p">>, <<"k", "P">>, <<"x">>, <<"S", "U", "P", "k">>}

\* activationdate and enddate of a service.
Periods == {<<<<"d1">>, <<"e1">>>>, <<<<"d2">>, <<"e2">>>>}

ServiceValues ==
    {[packagename |-> n, activationdate |-> p[1], enddate |-> p[2]] :
        n \in PackageNames, p \in Periods}

ServiceLists == UNION {[1..k -> ServiceValues] : k \in 0..MaxServices}

Responses == [msisdn : MsisdnValues, Services : ServiceLists]

\* str.lower on the letters the package names use.
lower_char(c) ==
    CASE c = "K" -> "k"
      [] c = "P" -> "p"
      [] c = "S" -> "s"
      [] c = "U" -> "u"
      [] OTHER -> c
lower(s) == [k \in 1..Len(s) |-> lower_char(s[k])]

\* p in s, for two strings.
str_in(p, s) == \E k \in 0..(Len(s) - Len(p)) : SubSeq(s, k + 1, k + Len(p)) = p

NoFields == [kartu |-> Null, act_kartu |-> Null, end_kartu |-> Null,
             paket |-> Null, act_paket |-> Null, end_paket |-> Null]

\* The body of the loop that keeps the first match instead of the last.
for_service_first(acc, service, ik, ip) ==
    LET name == service.packagename
        a1 == IF str_in(lower(ik), lower(name)) /\ acc.kartu = Null
              THEN [acc EXCEPT !.kartu = name,
                               !.act_kartu = service.activationdate,
                               !.end_kartu = service.enddate]
              ELSE acc
    IN  IF str_in(lower(ip), lower(name)) /\ acc.paket = Null
        THEN [a1 EXCEPT !.paket = name,
                        !.act_paket = service.activationdate,
                        !.end_paket = service.enddate]
        ELSE a1
\* The body of "for service in services".
for_service(acc, service, ik, ip) ==
    LET name == service.packagename
        a1 == IF str_in(lower(ik), lower(name))
              THEN [acc EXCEPT !.kartu = name,
                               !.act_kartu = service.activationdate,
                               !.end_kartu = service.enddate]
              ELSE acc
    IN  IF str_in(lower(ip), lower(name))
        THEN [a1 EXCEPT !.paket = name,
                        !.act_paket = service.activationdate,
                        !.end_paket = service.enddate]
        ELSE a1

RECURSIVE for_services(_, _, _, _)
for_services(acc, services, ik, ip) ==
    IF services = <<>> THEN acc
    ELSE for_services(for_service(acc, Head(services), ik, ip),
                      Tail(services), ik, ip)

parse_api_response(response_json, ik, ip) ==
    LET f == for_services(NoFields, response_json.Services, ik, ip)
    IN  [nomor |-> normalize_msisdn(response_json.msisdn),
         kartu |-> f.kartu, act_kartu |-> f.act_kartu, end_kartu |-> f.end_kartu,
         paket |-> f.paket, act_paket |-> f.act_paket, end_paket |-> f.end_paket]

\* parsed_data["status"] = "success"
success_outcome(p) ==
    [f \in DOMAIN p \cup {"status"} |-> IF f = "status" THEN "success" ELSE p[f]]

\* The behaviours of the endpoint under which a check does not succeed.
Failures == {b \in Behaviours : check_single_number(1, b).status # "success"}

ERROR == <<"E", "R", "R", "O", "R">>

\* One row of create_synchronized_dataframe (the columns the report reads).
synchronized_row(result_) ==
    IF result_.status = "success"
    THEN LET paket == result_.paket
             has_paket == paket # Null /\ paket # <<>>
         IN  [tujuan |-> result_.nomor,
              status |-> IF has_paket THEN 20 ELSE 10,
              sn |-> result_.kartu,
              status_label |-> IF has_paket THEN "SUKSES VALID" ELSE "SUKSES WAIT",
              final_status |-> "SUKSES PROFIT"]
    ELSE [tujuan |-> result_.nomor,
          status |-> 0,
          sn |-> ERROR,
          status_label |-> "GAGAL",
          final_status |-> "GAGAL A1"]

create_synchronized_dataframe(results_) ==
    [i \in 1..Len(results_) |-> synchronized_row(results_[i])]

\* The endpoint answers 200 with a JSON body.
Respond ==
    /\ ps = "waiting"
    /\ \E r \in Responses : response' = r
    /\ ps' = "received"
    /\ UNCHANGED <<parsed, synced>>

ParseApiResponse ==
    /\ ps = "received"
    /\ parsed' = success_outcome(
                     parse_api_response(response, identifier_kartu, identifier_paket))
    /\ ps' = "parsed"
    /\ UNCHANGED <<response, synced>>

\* The results of a run hold the successful check and one that failed.
CreateSynchronizedDataframe ==
    /\ ps = "parsed"
    /\ \E b \in Failures :
          synced' = create_synchronized_dataframe(
                        <<parsed, check_single_number(1, b)>>)
    /\ ps' = "synced"
    /\ UNCHANGED <<response, parsed>>

ParseNext ==
    \/ Respond /\ UNCHANGED <<engine, beh, sent, data>>
    \/ ParseApiResponse /\ UNCHANGED <<engine, beh, sent, data>>
    \/ CreateSynchronizedDataframe /\ UNCHANGED <<engine, beh, sent, data>>

ParseSpec == Init /\ [][ParseNext]_vars


\* ------------------------------------------------------------- the claims
\* Thread w has been started and has not left _process_queue.
Alive(w) == pc[w] \notin {"none", "done"}

\* Thread w has appended an outcome and not yet written the counter for it.
Handling(w) == pc[w] \in {"count_read", "count_write", "exc_read", "exc_write"}

\* This step takes an item from the queue.
Dequeue == queue # <<>> /\ queue' = Tail(queue)

\* stop_processing has returned (or the engine was never started) and
\* start_processing has not been called since: is_running is false, and not
\* because a stop_processing called on the running engine is still in its join.
Stopped == ~is_running /\ ctl # "joining"

\* C1: at every moment at most one thread is executing _process_queue.
C1_AtMostOneWorker == Cardinality({w \in Workers : Alive(w)}) <= 1

\* C2: whenever no worker is between appending an outcome and counting it,
\* processed_count + skip_count + error_count equals len(results).
C2_CountersMatchResults ==
    (\A w \in Workers : ~Handling(w)) =>
        processed_count + skip_count + error_count = Len(results)

\* C3: every outcome in results belongs to an item dequeued in the iteration
\* that appended it, no item has two outcomes, and an item whose handling is
\* past the append has its outcome in results.
C3_OneOutcomePerItem ==
    /\ \A i \in 1..Len(results) : results[i].src # 0
    /\ \A i, j \in 1..Len(results) : i # j => results[i].src # results[j].src
    /\ \A w \in Workers : pc[w] \in {"count_read", "count_write", "sleep"} =>
          \E i \in 1..Len(results) : results[i].src = cur[w]

\* C4: outcomes appear in results in the order their items were accepted by
\* add_to_queue (call k offers number k, so a smaller number was accepted first).
C4_ResultsInEnqueueOrder ==
    \A i, j \in 1..Len(results) :
        (i < j /\ results[i].src # 0 /\ results[j].src # 0) =>
            results[i].src < results[j].src

\* C5: while is_paused stays set (pause_processing has returned, no resume and
\* no fresh start since) no item is taken from the queue.
C5_NoDequeueWhilePaused == [][(is_paused /\ is_paused') => ~Dequeue]_vars

\* C6: between the return of stop_processing and the next start_processing no
\* item is dequeued, no outcome is appended and no counter changes.
C6_NothingAfterStop ==
    [][(Stopped /\ ~is_running') =>
          (~Dequeue /\ results' = results /\ counters' = counters)]_vars

\* C7: once is_running is false, every worker that is still in its loop leaves
\* it and ends, unless start_processing sets is_running again.
C7_StopTerminates ==
    (~is_running /\ \E w \in Workers : Alive(w))
        ~> (is_running \/ \A w \in Workers : ~Alive(w))

\* C7 witness: a thread has ended after stop_processing while the engine was
\* paused and items were still queued, and another ended with a result recorded.
C7_Witness ==
    /\ ~is_running
    /\ thread # 0
    /\ \A w \in 1..thread : pc[w] = "done"
    /\ is_paused
    /\ queue # <<>>
    /\ results # <<>>

\* An add_to_queue call returns in this step.
AddReturns ==
    \/ ctl = "idle" /\ ctl' = "idle" /\ next_item' # next_item
    \/ ctl = "putting" /\ ctl' = "idle"

\* The number the returning add_to_queue call offered.
Offered == IF ctl = "putting" THEN put_item ELSE next_item

\* C8: add_to_queue returns False, leaving the queue as it is, when max_queue
\* items are pending at the end of its wait; otherwise it returns True and the
\* number is the queue's last element; and the queue never holds more than
\* max_queue items.
C8_AddToQueue ==
    [][/\ (AddReturns /\ Len(queue) >= max_queue) =>
              (add_ret' = "False" /\ queue' = queue)
       /\ (AddReturns /\ Len(queue) < max_queue) =>
              (add_ret' = "True" /\ queue' = Append(queue, Offered))
       /\ Len(queue') <= max_queue]_vars

\* C8 witness: add_to_queue has returned False with max_queue items pending
\* and a started worker paused.
C8_Witness ==
    /\ add_ret = "False"
    /\ Len(queue) = max_queue
    /\ is_running
    /\ is_paused
    /\ \E w \in Workers : Alive(w)

\* C9: an exception in the try block does not end the worker: the worker
\* appends an outcome of status queue_error with the exception's text, adds one
\* to the error_count it reads, and goes back to the loop test; a worker ends
\* only at a loop test that finds is_running false.
C9_FailureKeepsWorker ==
    [][\A w \in Workers :
          /\ (pc[w] = "get" /\ pc'[w] # "get" /\ queue = <<>>) => pc'[w] = "except"
          /\ (pc[w] = "except" /\ pc'[w] # "except") =>
                /\ pc'[w] = "exc_read"
                /\ Len(results') = Len(results) + 1
                /\ SubSeq(results', 1, Len(results)) = results
                /\ results'[Len(results')].status = "queue_error"
                /\ results'[Len(results')].error = EmptyText
          /\ (pc[w] = "exc_read" /\ pc'[w] # "exc_read") =>
                (pc'[w] = "exc_write" /\ tmp'[w] = error_count)
          /\ (pc[w] = "exc_write" /\ pc'[w] # "exc_write") =>
                (pc'[w] = "exc_finally" /\ error_count' = tmp[w] + 1)
          /\ (pc[w] = "exc_finally" /\ pc'[w] # "exc_finally") => pc'[w] = "loop"
          /\ (pc[w] # "done" /\ pc'[w] = "done") =>
                (pc[w] = "loop" /\ ~is_running)]_vars

\* C9 witness: a queue_error outcome has been recorded and counted, and every
\* thread ever started is still in its loop.
C9_Witness ==
    /\ \E i \in 1..Len(results) : results[i].status = "queue_error"
    /\ error_count >= 1
    /\ thread = MaxWorkers
    /\ \A w \in Workers : pc[w] \in {"loop", "if_paused", "if_empty", "get"}

\* From the call of _check_single_number until its time.sleep(delay_seconds)
\* has ended, a thread is in one of these places.
CheckToDelayEnd == {"check", "count_read", "count_write", "sleep"}

\* C10: between two consecutive calls of the check a whole sleep(delay_seconds)
\* takes place: no check is called while the delay that follows the previous
\* check has not ended.
C10_DelayBetweenChecks ==
    [][\A w \in Workers : (pc[w] = "get" /\ pc'[w] = "check") =>
          \A v \in Workers \ {w} : pc[v] \notin CheckToDelayEnd]_vars

\* The sum the three counters hold.
CounterSum == processed_count + skip_count + error_count

\* Number n is waiting in the queue: an add_to_queue call put it there.
InQueue(n) == \E i \in 1..Len(queue) : queue[i] = n

\* An outcome made for the dequeued number n is in results.
InResults(n) == \E i \in 1..Len(results) : results[i].src = n

\* Every accepted item has been processed: nothing is queued or in hand, each
\* outcome is counted, and results holds one outcome per item.
AllProcessed ==
    /\ queue = <<>>
    /\ unfinished = 0
    /\ \A w \in Workers : cur[w] = 0
    /\ CounterSum = Len(results)
    /\ \A i, j \in 1..Len(results) : results[i].src = results[j].src => i = j

\* C11: if the engine is started, never stopped, and from some moment on not
\* paused, every number accepted into the queue is eventually dequeued and
\* its outcome appended to results, and in the end the queue is empty and the
\* counters sum to the number of outcomes, one per accepted number.
C11_AcceptedItemsProcessed ==
    <>[](thread = 1 /\ is_running /\ ~is_paused) =>
        /\ \A n \in 1..MaxItems : InQueue(n) ~> InResults(n)
        /\ <>[]AllProcessed

\* C11 witness: the engine was started once and is running unpaused, every
\* offered number was accepted, and all of them have been processed.
C11_Witness ==
    /\ thread = 1 /\ is_running /\ ~is_paused
    /\ AllProcessed
    /\ Len(results) = MaxItems
    /\ \A n \in 1..MaxItems : InResults(n)

\* A step of an operation other than start_processing, or of a worker.
NotAStart ==
    \/ AddToQueue \/ AddToQueueBlock \/ PutResume \/ PutTimeout
    \/ PauseProcessing \/ ResumeProcessing
    \/ StopProcessing \/ JoinReturn \/ JoinTimeout
    \/ \E w \in Workers : process_queue(w)

\* C12: start_processing on a running engine does nothing: while is_running
\* is true no thread is created, and every change of the state (is_paused,
\* the queue, results, the counters) is the step of another operation or of
\* a worker.
C12_StartWhileRunningNoOp ==
    [][is_running =>
          /\ thread' = thread
          /\ \A w \in Workers : pc[w] = "none" => pc'[w] = "none"
          /\ NotAStart]_vars

\* C12 witness: the engine is running and paused with work pending and done,
\* the caller is free to call start_processing, and a thread could be created.
C12_Witness ==
    /\ ENABLED StartProcessingRunning
    /\ is_paused
    /\ thread = 1 /\ thread < MaxWorkers
    /\ queue # <<>>
    /\ results # <<>>

\* A step of the control thread: only its calls change its own position, the
\* two flags and self.thread.
ControlStep == <<control, is_running, is_paused, thread>>' # <<control, is_running, is_paused, thread>>

\* A step of start_processing, pause_processing, resume_processing or
\* stop_processing: the control thread moves without offering a number.
ControlOpStep ==
    /\ ControlStep
    /\ next_item' = next_item /\ put_item' = put_item /\ add_ret' = add_ret
    /\ ctl' # "putting"

\* C13: no call of the control thread changes results or the counters, and
\* start, pause, resume and stop leave the queue as it is; from the return of
\* stop_processing to the next start_processing the queued numbers stay
\* queued in their order, so queue, results and counters carry over.
C13_ControlKeepsData ==
    [][/\ ControlStep => (results' = results /\ counters' = counters)
       /\ ControlOpStep => queue' = queue
       /\ Stopped => /\ Len(queue') >= Len(queue)
                     /\ SubSeq(queue', 1, Len(queue)) = queue]_vars

\* No per-item delay has ended yet: task_done follows each delay, so every
\* number put so far is still unfinished, and is queued, in its check, or has
\* its outcome in results.
NoDelayElapsed ==
    unfinished = Len(queue) + Len(results)
                   + Cardinality({w \in Workers : pc[w] = "check"})

\* C14: on an engine started once, whatever the control thread calls (start,
\* pause, stop among them) before any per-item delay has ended, at most the
\* one number in hand completes: the counters sum to at most 1 and results
\* holds at most one outcome, however the worker and the caller interleave.
C14_AtMostOneInFlight ==
    (thread <= 1 /\ NoDelayElapsed) => (CounterSum <= 1 /\ Len(results) <= 1)

\* C14 witness: start, pause and stop have been called and stop has returned
\* during the first delay; the number in hand was completed and counted and
\* another number is still queued.
C14_Witness ==
    /\ thread = 1 /\ ~is_running /\ is_paused /\ ctl = "idle"
    /\ NoDelayElapsed
    /\ pc[1] = "sleep"
    /\ Len(results) = 1 /\ CounterSum = 1
    /\ queue # <<>>

\* The outcome of the last check.
LastOutcome == results[Len(results)]

\* C15: when the endpoint answers every request with HTTP 500 the outcome is
\* skipped and its error names the status, "HTTP 500"; any status other than
\* 200 in answer to the check gives a skipped outcome, and the worker goes on.
C15_Non200Skipped ==
    results # <<>> =>
        /\ beh.resp \in Non200 => LastOutcome.status = "skipped"
        /\ (beh.ping = "500" /\ beh.resp = "500") => LastOutcome.error = HttpError("500")
        /\ \A w \in Workers : pc[w] # "done"

\* The outcomes in results whose status is in the set S.
Outcomes(S) == {i \in 1..Len(results) : results[i].status \in S}

\* The status of the outcome thread w has appended and not yet counted: that
\* of its result on the normal path, queue_error in the except clause.
PendingStatus(w) ==
    IF pc[w] \in {"count_read", "count_write"} THEN result[w].status ELSE "queue_error"

\* The number of outcomes with a status in S whose counter write has been
\* made: all of them, less one for each thread that is between the append of
\* such an outcome and the write.
Counted(S) ==
    Cardinality(Outcomes(S))
        - Cardinality({w \in Workers : Handling(w) /\ PendingStatus(w) \in S})

\* C16: whatever the endpoint does, each check returns one outcome, and the
\* worker stays in its loop: the status is success exactly for a 200 with a
\* JSON body, api_error exactly for an unexpected fault, and skipped for
\* everything else (another status, a body that is no JSON, a timeout, a
\* connection or request failure, a failed ping); successes are counted in
\* processed_count, skipped outcomes in skip_count, the rest in error_count.
C16_CheckTotal ==
    /\ Len(results) + Len(queue) + Cardinality({w \in Workers : pc[w] = "check"})
           = next_item - 1
    /\ \A w \in Workers : pc[w] # "done"
    /\ results # <<>> =>
          /\ LastOutcome.status \in {"success", "skipped", "api_error"}
          /\ LastOutcome.status = "success" <=>
                (beh.ping = "200" /\ beh.resp = "200json")
          /\ LastOutcome.status = "api_error" <=>
                (beh.ping = "200" /\ beh.resp = "fault")
    /\ processed_count = Counted({"success"})
    /\ skip_count = Counted({"skipped"})
    /\ error_count = Counted({"api_error", "queue_error"})

\* C16 witness: an unexpected fault and a body that is no JSON have been
\* checked, one counted as an error and one as skipped.
C16_Witness ==
    /\ Len(results) = 2
    /\ results[1].status = "api_error"
    /\ results[2].status = "skipped" /\ results[2].error = "Invalid JSON response"
    /\ beh.resp = "badjson"
    /\ error_count = 1 /\ skip_count = 1 /\ processed_count = 0

\* The frame has been returned with a row for each row of the query result.
Returned == ds = "returned" /\ Len(df) = Len(rows)

\* C17: the status_label of every record is GAGAL when its status is not 20,
\* whatever its sn; with status 20 it is SUKSES VALID when sn is not null and
\* begins with the letters S, U, P, and SUKSES WAIT otherwise (a null or
\* empty sn included); records with equal (status, sn) have equal labels.
C17_StatusLabel ==
    ds = "returned" =>
        /\ Len(df) = Len(rows)
        /\ \A i \in 1..Len(rows) :
              /\ df[i].status = rows[i].status /\ df[i].sn = rows[i].sn
              /\ rows[i].status # 20 => df[i].status_label = "GAGAL"
              /\ rows[i].status = 20 =>
                    IF /\ rows[i].sn # Null
                       /\ Len(rows[i].sn) >= 3
                       /\ rows[i].sn[1] = "S" /\ rows[i].sn[2] = "U" /\ rows[i].sn[3] = "P"
                    THEN df[i].status_label = "SUKSES VALID"
                    ELSE df[i].status_label = "SUKSES WAIT"
        /\ \A i, j \in 1..Len(rows) :
              (rows[i].status = rows[j].status /\ rows[i].sn = rows[j].sn)
                  => df[i].status_label = df[j].status_label

\* C17 witness: a frame was returned with a success whose sn is null, a
\* success whose sn holds SUP after another letter, a success whose sn begins
\* with SUP, in this order.
C17_Witness ==
    /\ Returned /\ Len(df) = 3
    /\ df[1].status = 20 /\ df[1].sn = Null /\ df[1].status_label = "SUKSES WAIT"
    /\ df[2].status = 20 /\ df[2].sn = <<"X", "S", "U", "P">>
    /\ df[2].status_label = "SUKSES WAIT"
    /\ df[3].status = 20 /\ df[3].sn = <<"S", "U", "P", "7">>
    /\ df[3].status_label = "SUKSES VALID"

\* The rows of the returned frame with destination t and status_label l.
WithLabel(t, l) == {i \in 1..Len(df) : df[i].tujuan = t /\ df[i].status_label = l}

\* C18: in every destination group, with valid the number of its SUKSES VALID
\* records and wait the number of its SUKSES WAIT records, every record has
\* final_status SUKSES PROFIT if valid = 1, SUKSES LOSS if valid > 1, SUKSES
\* PROFIT if valid = 0 and wait > 0, GAGAL A1 if valid = 0 and wait = 0.
C18_FinalStatusRule ==
    ds = "returned" =>
        \A i \in 1..Len(df) :
            df[i].tujuan # Null =>
                LET valid == Cardinality(WithLabel(df[i].tujuan, "SUKSES VALID"))
                    wait == Cardinality(WithLabel(df[i].tujuan, "SUKSES WAIT"))
                IN /\ valid = 1 => df[i].final_status = "SUKSES PROFIT"
                   /\ valid > 1 => df[i].final_status = "SUKSES LOSS"
                   /\ (valid = 0 /\ wait > 0) => df[i].final_status = "SUKSES PROFIT"
                   /\ (valid = 0 /\ wait = 0) => df[i].final_status = "GAGAL A1"

\* C18 witness: a frame was returned in which one destination has two
\* SUKSES VALID records (a loss) and another has none and one SUKSES WAIT.
C18_Witness ==
    /\ Returned /\ Len(df) = 3
    /\ df[1].tujuan = df[3].tujuan /\ df[1].tujuan # df[2].tujuan
    /\ df[1].tujuan # Null /\ df[2].tujuan # Null
    /\ df[1].status_label = "SUKSES VALID" /\ df[3].status_label = "SUKSES VALID"
    /\ df[2].status_label = "SUKSES WAIT"
    /\ df[1].final_status = "SUKSES LOSS" /\ df[3].final_status = "SUKSES LOSS"
    /\ df[2].final_status = "SUKSES PROFIT"

\* C19: in the returned frame any two records with the same tujuan have the
\* same final_status.
C19_SameDestinationSameFinal ==
    ds = "returned" =>
        \A i, j \in 1..Len(df) :
            df[i].tujuan = df[j].tujuan => df[i].final_status = df[j].final_status

\* C19 witness: a frame was returned in which a failed record and a SUKSES
\* VALID record of one destination are both SUKSES PROFIT, and a record of
\* another destination is GAGAL A1.
C19_Witness ==
    /\ Returned /\ Len(df) = 3
    /\ df[1].tujuan = df[2].tujuan /\ df[1].tujuan # Null
    /\ df[1].status_label = "GAGAL" /\ df[2].status_label = "SUKSES VALID"
    /\ df[1].final_status = "SUKSES PROFIT" /\ df[2].final_status = "SUKSES PROFIT"
    /\ df[3].tujuan # df[1].tujuan /\ df[3].final_status = "GAGAL A1"

\* The table q with its rows in the order p, a permutation of 1..Len(q).
Permuted(q, p) == [i \in 1..Len(q) |-> q[p[i]]]

\* C20: with the rows of the query result in any other order, every record
\* gets the status_label and the final_status it got in the original order.
C20_OrderIndependent ==
    ds = "returned" =>
        \A p \in Permutations(1..Len(rows)) :
            LET out == fetch_and_process_data(Permuted(rows, p))
            IN /\ Len(out) = Len(df)
               /\ \A i \in 1..Len(out) :
                     /\ out[i].status_label = df[p[i]].status_label
                     /\ out[i].final_status = df[p[i]].final_status

\* C20 witness: a frame was returned in which a destination has a SUKSES
\* VALID record followed, after a record of another destination, by a failed
\* one, so that other orders put the failed record first.
C20_Witness ==
    /\ Returned /\ Len(df) = 3
    /\ df[1].tujuan = df[3].tujuan /\ df[1].tujuan # Null
    /\ df[2].tujuan # df[1].tujuan
    /\ df[1].status_label = "SUKSES VALID" /\ df[3].status_label = "GAGAL"
    /\ df[1].final_status = "SUKSES PROFIT" /\ df[3].final_status = "SUKSES PROFIT"
    /\ df[2].final_status = "GAGAL A1"

\* C21: the classifier returns a frame whatever the rows hold, and a record
\* with a missing field (a null status, sn or tujuan) has status_label GAGAL.
C21_MissingFieldIsFailed ==
    ds = "returned" =>
        /\ Len(df) = Len(rows)
        /\ \A i \in 1..Len(rows) :
              (rows[i].status = NaN \/ rows[i].sn = Null \/ rows[i].tujuan = Null)
                  => df[i].status_label = "GAGAL"

\* C21 as it holds: the classifier returns a frame with a row for each row of
\* the query; a record with no status is GAGAL; a record with no sn is never
\* SUKSES VALID, it is SUKSES WAIT when its status is 20 and GAGAL otherwise;
\* a null tujuan has no part in the status_label.
C21_MissingFieldAmended ==
    ds = "returned" =>
        /\ Len(df) = Len(rows)
        /\ \A i \in 1..Len(rows) :
              /\ rows[i].status = NaN => df[i].status_label = "GAGAL"
              /\ rows[i].sn = Null =>
                    df[i].status_label = IF rows[i].status = 20 THEN "SUKSES WAIT" ELSE "GAGAL"
              /\ \A j \in 1..Len(rows) :
                    (rows[j].status = rows[i].status /\ rows[j].sn = rows[i].sn)
                        => df[j].status_label = df[i].status_label

\* C21 witness: a frame was returned for a record with no field at all, a
\* record with no status and a SUP serial, and a success with no sn.
C21_Witness ==
    /\ Returned /\ Len(df) = 3
    /\ rows[1].status = NaN /\ rows[1].sn = Null /\ rows[1].tujuan = Null
    /\ df[1].status_label = "GAGAL"
    /\ rows[2].status = NaN /\ rows[2].sn = <<"S", "U", "P", "7">>
    /\ df[2].status_label = "GAGAL"
    /\ rows[3].status = 20 /\ rows[3].sn = Null /\ df[3].status_label = "SUKSES WAIT"

\* The values final_status takes.
FinalStatuses == {"SUKSES PROFIT", "SUKSES LOSS", "GAGAL A1"}

\* C22: the summary of an empty frame has no column; otherwise it has one row
\* for each destination of the frame and one column for each of the three
\* final_status values, each cell holding the number of records with that
\* destination and that final_status.
C22_SummaryTable ==
    ds = "summarized" =>
        IF df = <<>>
        THEN summary.columns = {} /\ DOMAIN summary.cells = {}
        ELSE /\ summary.columns = FinalStatuses
             /\ DOMAIN summary.cells = {df[i].tujuan : i \in 1..Len(df)} \ {Null}
             /\ \A t \in DOMAIN summary.cells : \A c \in FinalStatuses :
                   summary.cells[t][c] =
                       Cardinality({i \in 1..Len(df) : df[i].tujuan = t
                                                        /\ df[i].final_status = c})

\* C30: a record with a null tujuan is in no group of the loop and has
\* final_status GAGAL A1 whatever the status_label of the records with a null
\* tujuan, SUKSES VALID and SUKSES WAIT included.
C30_NullDestinationKeepsDefault ==
    ds = "returned" =>
        \A i \in 1..Len(df) :
            /\ df[i].tujuan = rows[i].tujuan
            /\ rows[i].tujuan = Null => df[i].final_status = "GAGAL A1"

\* C30 witness: a frame was returned in which a SUKSES VALID record and a
\* SUKSES WAIT record with a null tujuan are both GAGAL A1, next to a SUKSES
\* VALID record with a destination, which is SUKSES PROFIT.
C30_Witness ==
    /\ Returned /\ Len(df) = 3
    /\ df[1].tujuan = Null /\ df[1].status_label = "SUKSES VALID"
    /\ df[1].final_status = "GAGAL A1"
    /\ df[2].tujuan = Null /\ df[2].status_label = "SUKSES WAIT"
    /\ df[2].final_status = "GAGAL A1"
    /\ df[3].tujuan # Null /\ df[3].status_label = "SUKSES VALID"
    /\ df[3].final_status = "SUKSES PROFIT"

\* C25: a check of one number issues exactly one request, with to = the
\* number; no other request is sent for the item.
C25_OneRequestPerCheck ==
    results # <<>> => sent = <<LastOutcome.src>>

\* The response has been parsed.
Parsed == ps \in {"parsed", "synced"}

\* C23: an msisdn that starts with "62" comes back as "0" followed by what
\* stood after those two characters; any other msisdn comes back unchanged.
C23_MsisdnNormalised ==
    Parsed =>
        LET m == response.msisdn
            n == parsed.nomor
        IN  IF m # Null /\ Len(m) >= 2 /\ m[1] = "6" /\ m[2] = "2"
            THEN /\ Len(n) = Len(m) - 1
                 /\ n[1] = "0"
                 /\ \A k \in 2..Len(n) : n[k] = m[k + 1]
            ELSE n = m

C23_Witness ==
    /\ Parsed
    /\ response.msisdn = <<"6", "2", "8", "1">>
    /\ parsed.nomor = <<"0", "8", "1">>

\* The same letter, in either case.
SameLetter(a, b) ==
    \/ a = b
    \/ {a, b} \in {{"K", "k"}, {"P", "p"}, {"S", "s"}, {"U", "u"}}

\* The services of the response whose package name contains the identifier,
\* whatever the case of the letters.
Matching(id) ==
    {i \in 1..Len(response.Services) :
        LET name == response.Services[i].packagename
        IN  \E k \in 0..(Len(name) - Len(id)) :
               \A j \in 1..Len(id) : SameLetter(id[j], name[k + j])}

Last(S) == CHOOSE i \in S : \A j \in S : j <= i

\* C24: the card fields come from the last service whose package name
\* contains identifier_kartu, the package fields from the last one whose name
\* contains identifier_paket, each whatever the case of the letters and
\* whatever the other identifier matched; without a match the fields are
\* null, and the outcome is a success all the same.
C24_LastMatchWins ==
    Parsed =>
        /\ parsed.status = "success"
        /\ IF Matching(identifier_kartu) = {}
           THEN parsed.kartu = Null /\ parsed.act_kartu = Null /\ parsed.end_kartu = Null
           ELSE LET service == response.Services[Last(Matching(identifier_kartu))]
                IN  /\ parsed.kartu = service.packagename
                    /\ parsed.act_kartu = service.activationdate
                    /\ parsed.end_kartu = service.enddate
        /\ IF Matching(identifier_paket) = {}
           THEN parsed.paket = Null /\ parsed.act_paket = Null /\ parsed.end_paket = Null
           ELSE LET service == response.Services[Last(Matching(identifier_paket))]
                IN  /\ parsed.paket = service.packagename
                    /\ parsed.act_paket = service.activationdate
                    /\ parsed.end_paket = service.enddate

\* Two services match the card identifier and differ in their dates, none
\* matches the package identifier.
C24_Witness ==
    /\ Parsed
    /\ Matching(identifier_kartu) = {1, 2}
    /\ Matching(identifier_paket) = {}
    /\ response.Services[1].activationdate # response.Services[2].activationdate
    /\ parsed.act_kartu = response.Services[2].activationdate
    /\ parsed.paket = Null
    /\ parsed.status = "success"

\* C26: whenever no worker is between appending an outcome and counting it,
\* each counter equals the number of outcomes of its kind in results:
\* processed_count the successes, skip_count the skipped ones, error_count
\* all others; no increment is lost in any interleaving of the threads.
C26_NoLostUpdate ==
    (\A w \in Workers : ~Handling(w)) =>
        /\ processed_count = Cardinality(Outcomes({"success"}))
        /\ skip_count = Cardinality(Outcomes({"skipped"}))
        /\ error_count = Len(results) - Cardinality(Outcomes({"success", "skipped"}))

\* C28: a queue_error outcome carries the number of the item dequeued in the
\* iteration that recorded it, or "unknown" when that iteration dequeued
\* nothing; never the number of an item of an earlier iteration.
C28_QueueErrorAttribution ==
    \A i \in 1..Len(results) :
        results[i].status = "queue_error" =>
            results[i].nomor =
                (IF results[i].src # 0 THEN number_text(results[i].src) ELSE Unknown)

\* The step of start_processing that starts the engine: is_running turns true.
StartStep == ~is_running /\ is_running'

\* A step of stop_processing: its assignment, which clears is_running and
\* enters the join, or the return of its join.
StopStep ==
    \/ is_running /\ ~is_running'
    \/ ~Joining /\ Joining'
    \/ Joining /\ ~Joining'

\* A step of a worker thread: a thread that exists moves.
WorkerStep == \E w \in Workers : pc[w] # "none" /\ pc'[w] # pc[w]

\* C29: start_processing on a non-running engine leaves is_running true and
\* is_paused false whatever calls came before, and the thread it starts is at
\* the head of its loop; stop_processing and the worker never change
\* is_paused, and the worker never changes is_running.
C29_FlagsFrame ==
    [][/\ StartStep => /\ is_running' /\ ~is_paused'
                       /\ thread' = thread + 1 /\ pc'[thread'] = "loop"
       /\ StopStep => is_paused' = is_paused
       /\ WorkerStep => is_paused' = is_paused /\ is_running' = is_running]_vars

\* The engine was paused and stopped, a worker has recorded an outcome, and
\* start_processing can be called.
C29_Witness ==
    /\ ENABLED StartProcessing
    /\ is_paused
    /\ results # <<>>

\* The final_status values fetch_and_process_data can give a row with label
\* l: what the rule assigns to a group with at least one row of that label,
\* the default where no branch is taken, and the default again for a row
\* with a null tujuan, which is in no group.
Producible(l) ==
    {IF rule(v, w) = "unassigned" THEN "GAGAL A1" ELSE rule(v, w) :
        v \in (IF l = "SUKSES VALID" THEN 1..MaxRows ELSE 0..MaxRows),
        w \in (IF l = "SUKSES WAIT" THEN 1..MaxRows ELSE 0..MaxRows)}
    \cup {"GAGAL A1"}

\* C27: every row of create_synchronized_dataframe follows the rule of the
\* report: its status_label is the label the classification gives its status
\* and sn, and its final_status is one the aggregation can give that label.
C27_SynchronizedRowsFollowRule ==
    ps = "synced" =>
        \A i \in 1..Len(synced) :
            /\ synced[i].status_label = status_label(synced[i])
            /\ synced[i].final_status \in Producible(synced[i].status_label)

====
